---- MODULE Spec2Model ----
(***************************************************************************)
(* Model of src/app.py: the per-device WORK/BREAK mode machine, the job    *)
(* button cycle recorder with its two debounce layers, and the shift based *)
(* retention of the two persisted collections.                             *)
(*                                                                         *)
(* Time is counted in ticks of 1/TicksPerSec second since local midnight   *)
(* of day 0.  Each request handler is one atomic step that reads the clock *)
(* once; datetime.utcnow() and datetime.now() are the same instant.        *)
(***************************************************************************)
EXTENDS Integers, Sequences, FiniteSets, TLC

\* ---------------------------------------------------------------- bounds
TicksPerSec == 2
MaxShifts == 2
MaxRecords == 1
MaxThreads == 2

\* ------------------------------------------------------ program constants
DEBOUNCE_WINDOW == 10
HardwareDebounce == 1
Shift1Hour == 6
Shift2Hour == 14
Shift3Hour == 22
ResetMinute == 0

\* ------------------------------------------------------------- time units
TicksPerMinute == 60 * TicksPerSec
TicksPerHour == 60 * TicksPerMinute
TicksPerDay == 24 * TicksPerHour
ShiftTicks == 8 * TicksPerHour

\* The clock is read at a sparse set of instants.  A fine window starts one
\* tick before the 14:00 boundary and holds the instants one tick, one
\* second and ten seconds later, so that every comparison of the handlers
\* falls on both sides; after it come the next MaxShifts shift boundaries
\* (22:00, 06:00, ...) and the first instant after each 06:00 minute.
StartTime == Shift2Hour * TicksPerHour - 1
FineOffsets == {0, 1, HardwareDebounce * TicksPerSec, DEBOUNCE_WINDOW * TicksPerSec}
Boundary(k) == StartTime + 1 + k * ShiftTicks
Instants ==
    {StartTime + o : o \in FineOffsets}
      \cup {Boundary(k) : k \in 1..MaxShifts}
      \cup {Boundary(k) + TicksPerMinute :
               k \in {n \in 1..MaxShifts : Boundary(n) % TicksPerDay = Shift1Hour * TicksPerHour}}

None == -1
NoId == ""
Devices == {"ESP01"}
IdInputs == Devices \cup {NoId}
Modes == {"WORK", "BREAK"}
ModeInputs == Modes \cup {"IDLE"}
SHIFT_ORDER == <<"SHIFT_1", "SHIFT_2", "SHIFT_3">>

VARIABLES clock, esp_state, esp_cycle_times, break_sessions, req, resp,
          inflight

vars == <<clock, esp_state, esp_cycle_times, break_sessions, req, resp,
          inflight>>

\* ------------------------------------------------------------ clock reads
Hour(now) == (now % TicksPerDay) \div TicksPerHour
Minute(now) == (now % TicksPerHour) \div TicksPerMinute

\* timedelta.total_seconds() compared against a whole number of seconds,
\* and int() of a non-negative number of seconds
Seconds(n) == n * TicksPerSec
\* int() of a number of seconds: truncation towards zero.
IntSeconds(ticks) ==
    IF ticks >= 0 THEN ticks \div TicksPerSec ELSE -((-ticks) \div TicksPerSec)

\* Variant: 14:00 still belongs to the first shift.
get_current_shift_LateBoundary(now) ==
    IF Shift1Hour <= Hour(now) /\ Hour(now) <= Shift2Hour THEN "SHIFT_1"
    ELSE IF Shift2Hour < Hour(now) /\ Hour(now) < Shift3Hour THEN "SHIFT_2"
    ELSE "SHIFT_3"

get_current_shift(now) ==
    IF Shift1Hour <= Hour(now) /\ Hour(now) < Shift2Hour THEN "SHIFT_1"
    ELSE IF Shift2Hour <= Hour(now) /\ Hour(now) < Shift3Hour THEN "SHIFT_2"
    ELSE "SHIFT_3"

ShiftIndex(s) == CHOOSE i \in 1..Len(SHIFT_ORDER) : SHIFT_ORDER[i] = s

get_previous_shift(current_shift) ==
    IF ShiftIndex(current_shift) > 1
    THEN SHIFT_ORDER[ShiftIndex(current_shift) - 1]
    ELSE SHIFT_ORDER[Len(SHIFT_ORDER)]

\* ------------------------------------------------------------- retention
KeepShifts(store, shifts) ==
    LET keep(r) == r.shift \in shifts IN SelectSeq(store, keep)

cleanup_old_shifts(store, now) ==
    KeepShifts(store, {get_current_shift(now),
                       get_previous_shift(get_current_shift(now))})

\* Variant: the reset looks at the hour only.
morning_reset_WholeHour(store, now) ==
    IF Hour(now) = Shift1Hour THEN <<>> ELSE store

morning_reset(store, now) ==
    IF Hour(now) = Shift1Hour /\ Minute(now) = ResetMinute THEN <<>> ELSE store

\* ----------------------------------------------------------- device state
DefaultState ==
    [mode |-> "BREAK", board_start_time |-> None,
     last_job_press_time |-> None, break_start |-> None]

init_esp(states, esp_id) ==
    IF esp_id \in DOMAIN states THEN states
    ELSE [d \in (DOMAIN states) \cup {esp_id} |->
             IF d = esp_id THEN DefaultState ELSE states[d]]

Put(states, esp_id, state) ==
    [d \in (DOMAIN states) \cup {esp_id} |->
        IF d = esp_id THEN state ELSE states[d]]

\* ------------------------------------------------------------- responses
NoResp ==
    [code |-> 0, tag |-> "", reason |-> "", mode |-> "", elapsed |-> None,
     cycle_time |-> None, board_active |-> FALSE, event_time |-> None]

ErrorResp(reason) == [NoResp EXCEPT !.code = 400, !.tag = "error", !.reason = reason]
AllowedResp(mode, reason) ==
    [NoResp EXCEPT !.code = 200, !.tag = "allowed", !.mode = mode, !.reason = reason]
BlockedResp(elapsed) ==
    [NoResp EXCEPT !.code = 403, !.tag = "blocked", !.mode = "WORK",
                   !.reason = "Board in progress", !.elapsed = elapsed]
IgnoredResp(reason, elapsed) ==
    [NoResp EXCEPT !.code = 200, !.tag = "ignored", !.reason = reason,
                   !.elapsed = elapsed]

\* The request a handler is serving: the route, its arguments and the time
\* it is served at.
Request(op, esp_id, mode, at) ==
    [op |-> op, esp_id |-> esp_id, mode |-> mode, at |-> at]

\* ------------------------------------------------------------------ Init
\* The server handles each request in a thread of its own.  A request in
\* flight is at a position in its handler and holds the handler's locals:
\* the request arguments, now, old_mode, the outcome of the membership test
\* of init_esp, the break_start and the cycle time it has read, and the
\* state dictionary it is bound to.  bound is FALSE before the handler has
\* read esp_state[esp_id]; orphan holds the dictionary once another thread
\* has put a new one in its place in esp_state.  A thread that serves no
\* request holds nothing.
Threads == 1..MaxThreads
Idle == [pc |-> "idle"]
Frame(op, esp_id, mode) ==
    [pc |-> "init_test", op |-> op, esp_id |-> esp_id, mode |-> mode,
     now |-> None, old_mode |-> "", missing |-> FALSE, break_start |-> None,
     cycle_time |-> None, bound |-> FALSE, orphaned |-> FALSE,
     orphan |-> DefaultState]

Init ==
    /\ clock = StartTime
    /\ esp_state = [d \in {} |-> DefaultState]
    /\ esp_cycle_times = <<>>
    /\ break_sessions = <<>>
    /\ req = Request("", NoId, "", StartTime)
    /\ resp = NoResp
    /\ inflight = [t \in Threads |-> Idle]

\* The wall clock moves between requests.
Advance(now) ==
    /\ now > clock
    /\ clock' = now
    /\ UNCHANGED <<esp_state, esp_cycle_times, break_sessions, req, resp,
                   inflight>>

\* ------------------------------------------------------------- set_mode
\* Variant: a blocked request leaves the break start alone.
WorkToBreak_NoStampWhenBlocked(state, now) ==
    LET stamped == [state EXCEPT !.break_start = now]
        elapsed == now - state.board_start_time
    IN  IF state.board_start_time = None
        THEN [state |-> [stamped EXCEPT !.mode = "BREAK"],
              records |-> <<>>,
              resp |-> AllowedResp("BREAK", "")]
        ELSE IF elapsed > Seconds(DEBOUNCE_WINDOW)
        THEN [state |-> state,
              records |-> <<>>,
              resp |-> BlockedResp(IntSeconds(elapsed))]
        ELSE [state |-> [stamped EXCEPT !.mode = "BREAK",
                                        !.board_start_time = None],
              records |-> <<>>,
              resp |-> AllowedResp("BREAK", "Board cancelled")]

\* Variant: the guard window is closed at exactly DEBOUNCE_WINDOW seconds.
WorkToBreak_BlockedAtWindow(state, now) ==
    LET stamped == [state EXCEPT !.break_start = now]
        elapsed == now - state.board_start_time
    IN  IF state.board_start_time = None
        THEN [state |-> [stamped EXCEPT !.mode = "BREAK"],
              records |-> <<>>,
              resp |-> AllowedResp("BREAK", "")]
        ELSE IF elapsed >= Seconds(DEBOUNCE_WINDOW)
        THEN [state |-> stamped,
              records |-> <<>>,
              resp |-> BlockedResp(IntSeconds(elapsed))]
        ELSE [state |-> [stamped EXCEPT !.mode = "BREAK",
                                        !.board_start_time = None],
              records |-> <<>>,
              resp |-> AllowedResp("BREAK", "Board cancelled")]

\* Variant: an early break request leaves the cycle running.
WorkToBreak_CancelKeepsCycle(state, now) ==
    LET stamped == [state EXCEPT !.break_start = now]
        elapsed == now - stamped.board_start_time
    IN  IF stamped.board_start_time = None
        THEN [state |-> [stamped EXCEPT !.mode = "BREAK"],
              records |-> <<>>,
              resp |-> AllowedResp("BREAK", "")]
        ELSE IF elapsed > Seconds(DEBOUNCE_WINDOW)
        THEN [state |-> stamped,
              records |-> <<>>,
              resp |-> BlockedResp(IntSeconds(elapsed))]
        ELSE [state |-> [stamped EXCEPT !.mode = "BREAK"],
              records |-> <<>>,
              resp |-> AllowedResp("BREAK", "Board cancelled")]

\* Variant: a blocked request restarts the cycle clock.
WorkToBreak_BlockedRestartsCycle(state, now) ==
    LET stamped == [state EXCEPT !.break_start = now]
        elapsed == now - stamped.board_start_time
    IN  IF stamped.board_start_time = None
        THEN [state |-> [stamped EXCEPT !.mode = "BREAK"],
              records |-> <<>>,
              resp |-> AllowedResp("BREAK", "")]
        ELSE IF elapsed > Seconds(DEBOUNCE_WINDOW)
        THEN [state |-> [stamped EXCEPT !.board_start_time = now],
              records |-> <<>>,
              resp |-> BlockedResp(IntSeconds(elapsed))]
        ELSE [state |-> [stamped EXCEPT !.mode = "BREAK",
                                        !.board_start_time = None],
              records |-> <<>>,
              resp |-> AllowedResp("BREAK", "Board cancelled")]

\* Variant: a pending break start is kept, only an unset one is stamped.
WorkToBreak_StampOnlyWhenUnset(state, now) ==
    LET stamped == IF state.break_start = None
                   THEN [state EXCEPT !.break_start = now]
                   ELSE state
        elapsed == now - stamped.board_start_time
    IN  IF stamped.board_start_time = None
        THEN [state |-> [stamped EXCEPT !.mode = "BREAK"],
              records |-> <<>>,
              resp |-> AllowedResp("BREAK", "")]
        ELSE IF elapsed > Seconds(DEBOUNCE_WINDOW)
        THEN [state |-> stamped,
              records |-> <<>>,
              resp |-> BlockedResp(IntSeconds(elapsed))]
        ELSE [state |-> [stamped EXCEPT !.mode = "BREAK",
                                        !.board_start_time = None],
              records |-> <<>>,
              resp |-> AllowedResp("BREAK", "Board cancelled")]

\* WORK -> BREAK request: the break start is stamped first, then the guard
\* on the board in progress decides.
WorkToBreak(state, now) ==
    LET stamped == [state EXCEPT !.break_start = now]
        elapsed == now - stamped.board_start_time
    IN  IF stamped.board_start_time = None
        THEN [state |-> [stamped EXCEPT !.mode = "BREAK"],
              records |-> <<>>,
              resp |-> AllowedResp("BREAK", "")]
        ELSE IF elapsed > Seconds(DEBOUNCE_WINDOW)
        THEN [state |-> stamped,
              records |-> <<>>,
              resp |-> BlockedResp(IntSeconds(elapsed))]
        ELSE [state |-> [stamped EXCEPT !.mode = "BREAK",
                                        !.board_start_time = None],
              records |-> <<>>,
              resp |-> AllowedResp("BREAK", "Board cancelled")]

\* Variant: the session is labelled with the shift in which the break began.
BreakSession_ShiftAtStart(esp_id, break_start, break_end) ==
    [esp_id |-> esp_id,
     shift |-> get_current_shift(break_start),
     start_time |-> break_start,
     end_time |-> break_end,
     duration_sec |-> IntSeconds(break_end - break_start)]

BreakSession(esp_id, break_start, break_end) ==
    [esp_id |-> esp_id,
     shift |-> get_current_shift(break_end),
     start_time |-> break_start,
     end_time |-> break_end,
     duration_sec |-> IntSeconds(break_end - break_start)]

\* BREAK -> WORK request: a pending break start yields one break session.
BreakToWork(state, now, esp_id) ==
    LET tracked == IF state.break_start # None
                   THEN [state EXCEPT !.break_start = None]
                   ELSE state
    IN  [state |-> [tracked EXCEPT !.mode = "WORK", !.board_start_time = None],
         records |-> IF state.break_start # None
                     THEN <<BreakSession(esp_id, state.break_start, now)>>
                     ELSE <<>>,
         resp |-> AllowedResp("WORK", "")]

\* Variant: the break start is stamped before the same-mode early return.
SetModeOutcome_StampBeforeNoOp(state, mode, now, esp_id) ==
    IF state.mode = mode
    THEN [state |-> IF mode = "BREAK"
                    THEN [state EXCEPT !.break_start = now]
                    ELSE state,
          records |-> <<>>, resp |-> AllowedResp(mode, "")]
    ELSE IF mode = "BREAK"
    THEN WorkToBreak(state, now)
    ELSE BreakToWork(state, now, esp_id)

SetModeOutcome(state, mode, now, esp_id) ==
    IF state.mode = mode
    THEN [state |-> state, records |-> <<>>, resp |-> AllowedResp(mode, "")]
    ELSE IF mode = "BREAK"
    THEN WorkToBreak(state, now)
    ELSE BreakToWork(state, now, esp_id)

SetMode(esp_id, mode) ==
    /\ req' = Request("set_mode", esp_id, mode, clock)
    /\ UNCHANGED <<clock, esp_cycle_times, inflight>>
    /\ IF esp_id = NoId
       THEN /\ resp' = ErrorResp("esp_id required")
            /\ UNCHANGED <<esp_state, break_sessions>>
       ELSE IF mode \notin Modes
       THEN /\ resp' = ErrorResp("Invalid mode")
            /\ UNCHANGED <<esp_state, break_sessions>>
       ELSE LET states == init_esp(esp_state, esp_id)
                out == SetModeOutcome(states[esp_id], mode, clock, esp_id)
            IN  /\ Len(break_sessions) + Len(out.records) <= MaxRecords
                /\ esp_state' = Put(states, esp_id, out.state)
                /\ break_sessions' = break_sessions \o out.records
                /\ resp' = out.resp

\* ------------------------------------------------------------- job_done
CycleTime(esp_id, cycle_time, now) ==
    [esp_id |-> esp_id,
     cycle_time_sec |-> cycle_time,
     shift |-> get_current_shift(now),
     timestamp |-> now]

\* Variant: a press that is too fast still counts as the last press.
JobPress_TooFastCountsAsPress(state, now) ==
    LET elapsed == now - state.board_start_time IN
    IF state.mode # "WORK"
    THEN [state |-> state, resp |-> IgnoredResp("Not in WORK mode", None)]
    ELSE IF /\ state.last_job_press_time # None
            /\ now - state.last_job_press_time < Seconds(HardwareDebounce)
    THEN [state |-> state, resp |-> IgnoredResp("Hardware debounce", None)]
    ELSE IF state.board_start_time = None
    THEN [state |-> [state EXCEPT !.board_start_time = now,
                                  !.last_job_press_time = now],
          resp |-> [NoResp EXCEPT !.code = 200, !.tag = "started"]]
    ELSE IF elapsed < Seconds(DEBOUNCE_WINDOW)
    THEN [state |-> [state EXCEPT !.last_job_press_time = now],
          resp |-> IgnoredResp("Too fast", IntSeconds(elapsed))]
    ELSE [state |-> [state EXCEPT !.board_start_time = now,
                                  !.last_job_press_time = now],
          resp |-> [NoResp EXCEPT !.code = 200,
                                  !.tag = "completed_and_started",
                                  !.cycle_time = IntSeconds(elapsed)]]

\* Variant: the mode is not looked at, a press in BREAK starts a cycle.
JobPress_AnyMode(state, now) ==
    LET elapsed == now - state.board_start_time IN
    IF /\ state.last_job_press_time # None
       /\ now - state.last_job_press_time < Seconds(HardwareDebounce)
    THEN [state |-> state, resp |-> IgnoredResp("Hardware debounce", None)]
    ELSE IF state.board_start_time = None
    THEN [state |-> [state EXCEPT !.board_start_time = now,
                                  !.last_job_press_time = now],
          resp |-> [NoResp EXCEPT !.code = 200, !.tag = "started"]]
    ELSE IF elapsed < Seconds(DEBOUNCE_WINDOW)
    THEN [state |-> state,
          resp |-> IgnoredResp("Too fast", IntSeconds(elapsed))]
    ELSE [state |-> [state EXCEPT !.board_start_time = now,
                                  !.last_job_press_time = now],
          resp |-> [NoResp EXCEPT !.code = 200,
                                  !.tag = "completed_and_started",
                                  !.cycle_time = IntSeconds(elapsed)]]

\* Variant: the logical debounce window is one second.
JobPress_OneSecondWindow(state, now) ==
    LET elapsed == now - state.board_start_time IN
    IF state.mode # "WORK"
    THEN [state |-> state, resp |-> IgnoredResp("Not in WORK mode", None)]
    ELSE IF /\ state.last_job_press_time # None
            /\ now - state.last_job_press_time < Seconds(HardwareDebounce)
    THEN [state |-> state, resp |-> IgnoredResp("Hardware debounce", None)]
    ELSE IF state.board_start_time = None
    THEN [state |-> [state EXCEPT !.board_start_time = now,
                                  !.last_job_press_time = now],
          resp |-> [NoResp EXCEPT !.code = 200, !.tag = "started"]]
    ELSE IF elapsed < Seconds(HardwareDebounce)
    THEN [state |-> state,
          resp |-> IgnoredResp("Too fast", IntSeconds(elapsed))]
    ELSE [state |-> [state EXCEPT !.board_start_time = now,
                                  !.last_job_press_time = now],
          resp |-> [NoResp EXCEPT !.code = 200,
                                  !.tag = "completed_and_started",
                                  !.cycle_time = IntSeconds(elapsed)]]

\* Variant: a completing press does not start the next cycle.
JobPress_CompletionKeepsStart(state, now) ==
    LET elapsed == now - state.board_start_time IN
    IF state.mode # "WORK"
    THEN [state |-> state, resp |-> IgnoredResp("Not in WORK mode", None)]
    ELSE IF /\ state.last_job_press_time # None
            /\ now - state.last_job_press_time < Seconds(HardwareDebounce)
    THEN [state |-> state, resp |-> IgnoredResp("Hardware debounce", None)]
    ELSE IF state.board_start_time = None
    THEN [state |-> [state EXCEPT !.board_start_time = now,
                                  !.last_job_press_time = now],
          resp |-> [NoResp EXCEPT !.code = 200, !.tag = "started"]]
    ELSE IF elapsed < Seconds(DEBOUNCE_WINDOW)
    THEN [state |-> state,
          resp |-> IgnoredResp("Too fast", IntSeconds(elapsed))]
    ELSE [state |-> [state EXCEPT !.last_job_press_time = now],
          resp |-> [NoResp EXCEPT !.code = 200,
                                  !.tag = "completed_and_started",
                                  !.cycle_time = IntSeconds(elapsed)]]

\* The decisions of one button press on the device state, up to the insert.
JobPress(state, now) ==
    LET elapsed == now - state.board_start_time IN
    IF state.mode # "WORK"
    THEN [state |-> state, resp |-> IgnoredResp("Not in WORK mode", None)]
    ELSE IF /\ state.last_job_press_time # None
            /\ now - state.last_job_press_time < Seconds(HardwareDebounce)
    THEN [state |-> state, resp |-> IgnoredResp("Hardware debounce", None)]
    ELSE IF state.board_start_time = None
    THEN [state |-> [state EXCEPT !.board_start_time = now,
                                  !.last_job_press_time = now],
          resp |-> [NoResp EXCEPT !.code = 200, !.tag = "started"]]
    ELSE IF elapsed < Seconds(DEBOUNCE_WINDOW)
    THEN [state |-> state,
          resp |-> IgnoredResp("Too fast", IntSeconds(elapsed))]
    ELSE [state |-> [state EXCEPT !.board_start_time = now,
                                  !.last_job_press_time = now],
          resp |-> [NoResp EXCEPT !.code = 200,
                                  !.tag = "completed_and_started",
                                  !.cycle_time = IntSeconds(elapsed)]]

\* What a completed cycle does to the two collections: the insert, then
\* cleanup_old_shifts and morning_reset on both.
CompleteCycle(cycles, breaks, esp_id, cycle_time, now) ==
    [cycles |-> morning_reset(
                  cleanup_old_shifts(
                    Append(cycles, CycleTime(esp_id, cycle_time, now)), now),
                  now),
     breaks |-> morning_reset(cleanup_old_shifts(breaks, now), now)]

JobDone(esp_id) ==
    /\ req' = Request("job_done", esp_id, "", clock)
    /\ UNCHANGED <<clock, inflight>>
    /\ IF esp_id = NoId
       THEN /\ resp' = ErrorResp("esp_id required")
            /\ UNCHANGED <<esp_state, esp_cycle_times, break_sessions>>
       ELSE LET states == init_esp(esp_state, esp_id)
                out == JobPress(states[esp_id], clock)
                db == CompleteCycle(esp_cycle_times, break_sessions, esp_id,
                                    out.resp.cycle_time, clock)
            IN  /\ esp_state' = Put(states, esp_id, out.state)
                /\ resp' = out.resp
                /\ IF out.resp.tag = "completed_and_started"
                   THEN /\ Len(db.cycles) <= MaxRecords
                        /\ esp_cycle_times' = db.cycles
                        /\ break_sessions' = db.breaks
                   ELSE UNCHANGED <<esp_cycle_times, break_sessions>>

\* ---------------------------------------------------------------- status
JobEvent(esp_id) ==
    /\ req' = Request("job_event", esp_id, "", clock)
    /\ resp' = IF esp_id = NoId \/ esp_id \notin DOMAIN esp_state
               THEN ErrorResp("Invalid esp_id")
               ELSE [NoResp EXCEPT
                       !.code = 200, !.tag = "event",
                       !.event_time =
                          IF esp_state[esp_id].last_job_press_time # None
                          THEN esp_state[esp_id].last_job_press_time
                          ELSE 0]
    /\ UNCHANGED <<clock, esp_state, esp_cycle_times, break_sessions, inflight>>

\* Variant: the status route creates the state of a device it does not know.
ModeStatus_InitsDevice(esp_id) ==
    /\ req' = Request("mode_status", esp_id, "", clock)
    /\ resp' = IF esp_id = NoId
               THEN ErrorResp("Invalid esp_id")
               ELSE [NoResp EXCEPT
                       !.code = 200, !.tag = "status",
                       !.mode = init_esp(esp_state, esp_id)[esp_id].mode]
    /\ esp_state' = IF esp_id = NoId THEN esp_state ELSE init_esp(esp_state, esp_id)
    /\ UNCHANGED <<clock, esp_cycle_times, break_sessions, inflight>>

ModeStatus(esp_id) ==
    /\ req' = Request("mode_status", esp_id, "", clock)
    /\ resp' = IF esp_id = NoId \/ esp_id \notin DOMAIN esp_state
               THEN ErrorResp("Invalid esp_id")
               ELSE [NoResp EXCEPT
                       !.code = 200, !.tag = "status",
                       !.mode = esp_state[esp_id].mode,
                       !.board_active =
                          esp_state[esp_id].board_start_time # None,
                       !.elapsed =
                          IF esp_state[esp_id].board_start_time # None
                          THEN IntSeconds(clock - esp_state[esp_id].board_start_time)
                          ELSE None]
    /\ UNCHANGED <<clock, esp_state, esp_cycle_times, break_sessions, inflight>>

\* ------------------------------------------------------------ graph_data
\* find(...).sort(key, 1): the matching documents in ascending key order,
\* documents with equal keys in insertion order.
SortedBy(docs, keys) ==
    LET n == Len(docs)
        order == CHOOSE f \in [1..n -> 1..n] :
                    /\ \A i, j \in 1..n : i # j => f[i] # f[j]
                    /\ \A i, j \in 1..n :
                         i < j => \/ keys[f[i]] < keys[f[j]]
                                  \/ keys[f[i]] = keys[f[j]] /\ f[i] < f[j]
    IN  [i \in 1..n |-> docs[order[i]]]

\* The graph route: the cycles of the device in the current and the
\* previous shift and its break sessions of the current shift.  The target
\* time and model come from a collection that is not modelled and are left
\* out of the response.
GraphData(esp_id) ==
    /\ req' = Request("graph_data", esp_id, "", clock)
    /\ resp' =
         IF esp_id = NoId
         THEN ErrorResp("esp_id required")
         ELSE LET current_shift == get_current_shift(clock)
                  previous_shift == get_previous_shift(current_shift)
                  mine(r) == r.esp_id = esp_id /\ r.shift \in {current_shift, previous_shift}
                  found == SelectSeq(esp_cycle_times, mine)
                  cursor == SortedBy(found, [i \in 1..Len(found) |-> found[i].timestamp])
                  isCurrent(r) == r.shift = current_shift
                  isPrevious(r) == r.shift # current_shift
                  myBreak(r) == r.esp_id = esp_id /\ r.shift = current_shift
                  breaks == SelectSeq(break_sessions, myBreak)
              IN  [code |-> 200, tag |-> "graph",
                   current_shift |-> current_shift,
                   previous_shift |-> previous_shift,
                   current_shift_data |-> SelectSeq(cursor, isCurrent),
                   previous_shift_data |-> SelectSeq(cursor, isPrevious),
                   break_list |->
                      SortedBy(breaks, [i \in 1..Len(breaks) |-> breaks[i].start_time])]
    /\ UNCHANGED <<clock, esp_state, esp_cycle_times, break_sessions, inflight>>

\* --------------------------------------------------------------- startup
\* A process (re)start: the in-memory map is empty again, the collections
\* survive and are swept by startup_tasks.
Startup ==
    /\ req' = Request("startup", NoId, "", clock)
    /\ resp' = NoResp
    /\ esp_state' = [d \in {} |-> DefaultState]
    /\ esp_cycle_times' = cleanup_old_shifts(esp_cycle_times, clock)
    /\ break_sessions' = cleanup_old_shifts(break_sessions, clock)
    /\ UNCHANGED <<clock, inflight>>

Next ==
    \/ \E now \in Instants : Advance(now)
    \/ \E esp_id \in IdInputs, mode \in ModeInputs : SetMode(esp_id, mode)
    \/ \E esp_id \in IdInputs : JobDone(esp_id)
    \/ \E esp_id \in IdInputs : JobEvent(esp_id)
    \/ \E esp_id \in IdInputs : ModeStatus(esp_id)
    \/ Startup

Spec == Init /\ [][Next]_vars

\* ------------------------------------------------- persistence failures
\* The handlers do not catch what a collection call raises: the handler
\* stops at the failing call, what it did before stays done, what follows
\* is not executed, and the server answers 500.
PersistenceCalls ==
    {"insert_one", "cleanup_cycles", "cleanup_breaks", "reset_cycles", "reset_breaks"}
ServerError ==
    [NoResp EXCEPT !.code = 500, !.tag = "error", !.reason = "Internal Server Error"]

\* A completing press whose insert, sweep or daily reset raises.
JobDoneFails(esp_id, call) ==
    LET states == init_esp(esp_state, esp_id)
        out == JobPress(states[esp_id], clock)
        inserted == Append(esp_cycle_times,
                           CycleTime(esp_id, out.resp.cycle_time, clock))
        sweptCycles == cleanup_old_shifts(inserted, clock)
        sweptBreaks == cleanup_old_shifts(break_sessions, clock)
        db == CASE call = "insert_one" ->
                     [cycles |-> esp_cycle_times, breaks |-> break_sessions]
                [] call = "cleanup_cycles" ->
                     [cycles |-> inserted, breaks |-> break_sessions]
                [] call = "cleanup_breaks" ->
                     [cycles |-> sweptCycles, breaks |-> break_sessions]
                [] call = "reset_cycles" ->
                     [cycles |-> sweptCycles, breaks |-> sweptBreaks]
                [] call = "reset_breaks" ->
                     [cycles |-> morning_reset(sweptCycles, clock),
                      breaks |-> sweptBreaks]
    IN  /\ out.resp.tag = "completed_and_started"
        /\ call \in {"reset_cycles", "reset_breaks"}
             => Hour(clock) = Shift1Hour /\ Minute(clock) = ResetMinute
        /\ Len(db.cycles) <= MaxRecords
        /\ req' = Request("job_done", esp_id, "", clock)
        /\ resp' = ServerError
        /\ esp_state' = states
        /\ esp_cycle_times' = db.cycles
        /\ break_sessions' = db.breaks
        /\ UNCHANGED <<clock, inflight>>

\* A return to WORK whose break session insert raises.
SetModeFails(esp_id) ==
    LET states == init_esp(esp_state, esp_id) IN
    /\ states[esp_id].mode = "BREAK"
    /\ states[esp_id].break_start # None
    /\ req' = Request("set_mode", esp_id, "WORK", clock)
    /\ resp' = ServerError
    /\ esp_state' = states
    /\ UNCHANGED <<clock, esp_cycle_times, break_sessions, inflight>>

NextFail ==
    \/ \E now \in Instants : Advance(now)
    \/ \E esp_id \in IdInputs, mode \in ModeInputs : SetMode(esp_id, mode)
    \/ \E esp_id \in IdInputs : JobDone(esp_id)
    \/ \E esp_id \in Devices, call \in PersistenceCalls : JobDoneFails(esp_id, call)
    \/ \E esp_id \in Devices : SetModeFails(esp_id)

SpecFail == Init /\ [][NextFail]_vars

\* ---------------------------------------------------- requests in flight
\* The handlers statement by statement, as the threads of the server run
\* them against the shared esp_state and the collections.  A step is one
\* access to the shared state together with the local computation around
\* it.  Requests with a missing esp_id or an invalid mode return before they
\* touch anything and are left to the handlers above.
ConcInstants == {StartTime, StartTime + 1, StartTime + DEBOUNCE_WINDOW * TicksPerSec}
Ops == {"set_mode", "job_done"}
At_pc(t, pc) == inflight[t].pc = pc
Goto(t, pc) == inflight' = [inflight EXCEPT ![t].pc = pc]

\* The dictionary the thread holds a reference to.
BoundState(t) ==
    IF inflight[t].orphaned THEN inflight[t].orphan
    ELSE esp_state[inflight[t].esp_id]

\* An assignment to entries of that dictionary, and the frame afterwards.
Assign(t, state, frame) ==
    IF inflight[t].orphaned
    THEN /\ inflight' = [inflight EXCEPT ![t] =
                            IF frame.pc = "idle" THEN frame
                            ELSE [frame EXCEPT !.orphan = state]]
         /\ UNCHANGED esp_state
    ELSE /\ esp_state' = Put(esp_state, inflight[t].esp_id, state)
         /\ inflight' = [inflight EXCEPT ![t] = frame]

Return(t, response) ==
    /\ resp' = response
    /\ UNCHANGED req

\* A request arrives and is given to the first free thread.
Begin(t, op, esp_id, mode) ==
    /\ At_pc(t, "idle")
    /\ \A u \in Threads : u < t => ~At_pc(u, "idle")
    /\ op = "job_done" => mode = "WORK"
    /\ inflight' = [inflight EXCEPT ![t] =
          Frame(op, esp_id, IF op = "set_mode" THEN mode ELSE "")]
    /\ UNCHANGED <<clock, esp_state, esp_cycle_times, break_sessions, req, resp>>

\* init_esp: if esp_id not in esp_state
InitTest(t) ==
    /\ At_pc(t, "init_test")
    /\ inflight' = [inflight EXCEPT
          ![t].missing = inflight[t].esp_id \notin DOMAIN esp_state,
          ![t].pc = IF inflight[t].esp_id \notin DOMAIN esp_state
                    THEN "init_create" ELSE "bind"]
    /\ UNCHANGED <<clock, esp_state, esp_cycle_times, break_sessions, req, resp>>

\* init_esp: esp_state[esp_id] = {...}.  A dictionary that was there is
\* replaced; the threads bound to it keep it.
InitCreate(t) ==
    /\ At_pc(t, "init_create")
    /\ esp_state' = Put(esp_state, inflight[t].esp_id, DefaultState)
    /\ inflight' =
         [u \in Threads |->
            IF u = t THEN [inflight[t] EXCEPT !.pc = "bind"]
            ELSE IF /\ ~At_pc(u, "idle")
                    /\ inflight[u].bound
                    /\ ~inflight[u].orphaned
                    /\ inflight[u].esp_id = inflight[t].esp_id
            THEN [inflight[u] EXCEPT !.orphaned = TRUE,
                                     !.orphan = esp_state[inflight[u].esp_id]]
            ELSE inflight[u]]
    /\ UNCHANGED <<clock, esp_cycle_times, break_sessions, req, resp>>

\* state = esp_state[esp_id]
Bind(t) ==
    /\ At_pc(t, "bind")
    /\ inflight' = [inflight EXCEPT
          ![t].bound = TRUE,
          ![t].pc = IF inflight[t].op = "set_mode" THEN "sm_old" ELSE "jd_mode"]
    /\ UNCHANGED <<clock, esp_state, esp_cycle_times, break_sessions, req, resp>>

\* set_mode: now = datetime.utcnow(); old_mode = state["mode"]
SetModeOld(t) ==
    /\ At_pc(t, "sm_old")
    /\ inflight' = [inflight EXCEPT ![t].now = clock,
                                    ![t].old_mode = BoundState(t).mode,
                                    ![t].pc = "sm_same"]
    /\ UNCHANGED <<clock, esp_state, esp_cycle_times, break_sessions, req, resp>>

\* set_mode: if state["mode"] == mode: return, and the choice of the break
\* tracking branch by old_mode.
SetModeSame(t) ==
    LET f == inflight[t] IN
    /\ At_pc(t, "sm_same")
    /\ IF BoundState(t).mode = f.mode
       THEN /\ Return(t, AllowedResp(f.mode, ""))
            /\ inflight' = [inflight EXCEPT ![t] = Idle]
       ELSE /\ Goto(t, IF f.old_mode = "WORK" /\ f.mode = "BREAK" THEN "sm_stamp"
                       ELSE IF f.old_mode = "BREAK" /\ f.mode = "WORK" THEN "sm_track"
                       ELSE "sm_switch")
            /\ UNCHANGED <<req, resp>>
    /\ UNCHANGED <<clock, esp_state, esp_cycle_times, break_sessions>>

\* set_mode: state["break_start"] = now
SetModeStamp(t) ==
    /\ At_pc(t, "sm_stamp")
    /\ Assign(t, [BoundState(t) EXCEPT !.break_start = inflight[t].now],
              [inflight[t] EXCEPT !.pc = "sm_switch"])
    /\ UNCHANGED <<clock, esp_cycle_times, break_sessions, req, resp>>

\* set_mode: break_start = state.get("break_start"); if break_start:
SetModeTrack(t) ==
    /\ At_pc(t, "sm_track")
    /\ inflight' = [inflight EXCEPT
          ![t].break_start = BoundState(t).break_start,
          ![t].pc = IF BoundState(t).break_start # None
                    THEN "sm_insert" ELSE "sm_switch"]
    /\ UNCHANGED <<clock, esp_state, esp_cycle_times, break_sessions, req, resp>>

\* set_mode: db.break_sessions.insert_one(...), the shift read at the insert.
SetModeInsert(t) ==
    LET f == inflight[t] IN
    /\ At_pc(t, "sm_insert")
    /\ Len(break_sessions) < MaxRecords
    /\ break_sessions' =
         Append(break_sessions,
                [BreakSession(f.esp_id, f.break_start, f.now)
                   EXCEPT !.shift = get_current_shift(clock)])
    /\ Goto(t, "sm_clear")
    /\ UNCHANGED <<clock, esp_state, esp_cycle_times, req, resp>>

\* set_mode: state["break_start"] = None
SetModeClear(t) ==
    /\ At_pc(t, "sm_clear")
    /\ Assign(t, [BoundState(t) EXCEPT !.break_start = None],
              [inflight[t] EXCEPT !.pc = "sm_switch"])
    /\ UNCHANGED <<clock, esp_cycle_times, break_sessions, req, resp>>

\* set_mode: the mode switch on the mode as it is now, and the return.
SetModeSwitch(t) ==
    LET f == inflight[t]
        state == BoundState(t)
        elapsed == f.now - state.board_start_time
        blocked == /\ state.mode = "WORK"
                   /\ f.mode = "BREAK"
                   /\ state.board_start_time # None
                   /\ elapsed > Seconds(DEBOUNCE_WINDOW)
    IN  /\ At_pc(t, "sm_switch")
        /\ IF blocked
           THEN /\ Return(t, BlockedResp(IntSeconds(elapsed)))
                /\ inflight' = [inflight EXCEPT ![t] = Idle]
                /\ UNCHANGED esp_state
           ELSE IF state.mode = "BREAK" /\ f.mode = "WORK"
           THEN /\ Return(t, AllowedResp("WORK", ""))
                /\ Assign(t, [state EXCEPT !.mode = "WORK",
                                           !.board_start_time = None], Idle)
           ELSE IF state.mode = "WORK" /\ f.mode = "BREAK"
           THEN /\ Return(t, AllowedResp("BREAK",
                               IF state.board_start_time = None
                               THEN "" ELSE "Board cancelled"))
                /\ Assign(t, [state EXCEPT !.mode = "BREAK",
                                           !.board_start_time = None], Idle)
           ELSE /\ Return(t, AllowedResp(f.mode, ""))
                /\ Assign(t, [state EXCEPT !.mode = f.mode], Idle)
        /\ UNCHANGED <<clock, esp_cycle_times, break_sessions>>

\* job_done: if state["mode"] != "WORK": return; now = datetime.utcnow()
JobDoneMode(t) ==
    /\ At_pc(t, "jd_mode")
    /\ IF BoundState(t).mode # "WORK"
       THEN /\ Return(t, IgnoredResp("Not in WORK mode", None))
            /\ inflight' = [inflight EXCEPT ![t] = Idle]
       ELSE /\ inflight' = [inflight EXCEPT ![t].now = clock,
                                            ![t].pc = "jd_debounce"]
            /\ UNCHANGED <<req, resp>>
    /\ UNCHANGED <<clock, esp_state, esp_cycle_times, break_sessions>>

\* job_done: the hardware debounce on last_job_press_time.
JobDoneDebounce(t) ==
    LET last == BoundState(t).last_job_press_time IN
    /\ At_pc(t, "jd_debounce")
    /\ IF last # None /\ inflight[t].now - last < Seconds(HardwareDebounce)
       THEN /\ Return(t, IgnoredResp("Hardware debounce", None))
            /\ inflight' = [inflight EXCEPT ![t] = Idle]
       ELSE /\ Goto(t, "jd_start")
            /\ UNCHANGED <<req, resp>>
    /\ UNCHANGED <<clock, esp_state, esp_cycle_times, break_sessions>>

\* job_done: the first press starts a cycle; otherwise elapsed is taken and
\* the logical debounce applied.
JobDoneStart(t) ==
    LET f == inflight[t]
        state == BoundState(t)
        elapsed == f.now - state.board_start_time
    IN  /\ At_pc(t, "jd_start")
        /\ IF state.board_start_time = None
           THEN /\ Return(t, [NoResp EXCEPT !.code = 200, !.tag = "started"])
                /\ Assign(t, [state EXCEPT !.board_start_time = f.now,
                                           !.last_job_press_time = f.now], Idle)
           ELSE IF elapsed < Seconds(DEBOUNCE_WINDOW)
           THEN /\ Return(t, IgnoredResp("Too fast", IntSeconds(elapsed)))
                /\ inflight' = [inflight EXCEPT ![t] = Idle]
                /\ UNCHANGED esp_state
           ELSE /\ inflight' = [inflight EXCEPT
                      ![t].cycle_time = IntSeconds(elapsed),
                      ![t].pc = "jd_insert"]
                /\ UNCHANGED <<esp_state, req, resp>>
        /\ UNCHANGED <<clock, esp_cycle_times, break_sessions>>

\* job_done: insert_one, cleanup_old_shifts(), morning_reset(); the shift
\* and the sweeps read the clock as it is now.
JobDoneInsert(t) ==
    LET f == inflight[t]
        doc == [CycleTime(f.esp_id, f.cycle_time, f.now)
                  EXCEPT !.shift = get_current_shift(clock)]
        cycles == morning_reset(
                    cleanup_old_shifts(Append(esp_cycle_times, doc), clock),
                    clock)
    IN  /\ At_pc(t, "jd_insert")
        /\ Len(cycles) <= MaxRecords
        /\ esp_cycle_times' = cycles
        /\ break_sessions' =
             morning_reset(cleanup_old_shifts(break_sessions, clock), clock)
        /\ Goto(t, "jd_restart")
        /\ UNCHANGED <<clock, esp_state, req, resp>>

\* job_done: state["board_start_time"] = now; state["last_job_press_time"]
\* = now; return
JobDoneRestart(t) ==
    LET f == inflight[t] IN
    /\ At_pc(t, "jd_restart")
    /\ Return(t, [NoResp EXCEPT !.code = 200, !.tag = "completed_and_started",
                                !.cycle_time = f.cycle_time])
    /\ Assign(t, [BoundState(t) EXCEPT !.board_start_time = f.now,
                                       !.last_job_press_time = f.now], Idle)
    /\ UNCHANGED <<clock, esp_cycle_times, break_sessions>>

NextConc ==
    \/ \E now \in ConcInstants : Advance(now)
    \/ \E t \in Threads, op \in Ops, esp_id \in Devices, mode \in Modes :
         Begin(t, op, esp_id, mode)
    \/ \E t \in Threads : InitTest(t)
    \/ \E t \in Threads : InitCreate(t)
    \/ \E t \in Threads : Bind(t)
    \/ \E t \in Threads : SetModeOld(t)
    \/ \E t \in Threads : SetModeSame(t)
    \/ \E t \in Threads : SetModeStamp(t)
    \/ \E t \in Threads : SetModeTrack(t)
    \/ \E t \in Threads : SetModeInsert(t)
    \/ \E t \in Threads : SetModeClear(t)
    \/ \E t \in Threads : SetModeSwitch(t)
    \/ \E t \in Threads : JobDoneMode(t)
    \/ \E t \in Threads : JobDoneDebounce(t)
    \/ \E t \in Threads : JobDoneStart(t)
    \/ \E t \in Threads : JobDoneInsert(t)
    \/ \E t \in Threads : JobDoneRestart(t)

SpecConc == Init /\ [][NextConc]_vars

\* The shift clock on its own: the process is up at some time of the day
\* and serves the graph route, which reports the current and previous shift.
QuarterHours == {q * 15 * TicksPerMinute : q \in 0..95}
AroundBoundaries ==
    {h * TicksPerHour + o : h \in {Shift1Hour, Shift2Hour, Shift3Hour},
                            o \in {-TicksPerMinute, -TicksPerSec, -1, 1}}
ProbeTimes == QuarterHours \cup AroundBoundaries

InitAnyTime ==
    /\ clock \in ProbeTimes
    /\ esp_state = [d \in {} |-> DefaultState]
    /\ esp_cycle_times = <<>>
    /\ break_sessions = <<>>
    /\ req = Request("", NoId, "", clock)
    /\ resp = NoResp
    /\ inflight = [t \in Threads |-> Idle]

NextShift == \E esp_id \in IdInputs : GraphData(esp_id)

SpecShift == InitAnyTime /\ [][NextShift]_vars

TypeOK ==
    /\ clock \in Nat
    /\ DOMAIN esp_state \subseteq Devices
    /\ \A d \in DOMAIN esp_state : esp_state[d].mode \in Modes
    /\ Len(esp_cycle_times) <= MaxRecords
    /\ Len(break_sessions) <= MaxRecords

\* ================================================================ claims
Known(d) == d \in DOMAIN esp_state
CycleActive(d) ==
    /\ Known(d)
    /\ esp_state[d].mode = "WORK"
    /\ esp_state[d].board_start_time # None
ElapsedTicks(d) == clock - esp_state[d].board_start_time
WindowTicks == DEBOUNCE_WINDOW * TicksPerSec
StoresUnchanged == UNCHANGED <<esp_cycle_times, break_sessions>>

\* C1: a WORK -> BREAK request more than 10 seconds into a cycle is blocked;
\* it leaves mode, board_start_time, last_job_press_time and both collections
\* as they were and changes only break_start, which becomes the request time.
C1_BlockedRequestFrame ==
    [][\A d \in Devices :
         (SetMode(d, "BREAK") /\ CycleActive(d) /\ ElapsedTicks(d) > WindowTicks)
         => /\ resp'.tag = "blocked"
            /\ resp'.code = 403
            /\ resp'.mode = "WORK"
            /\ esp_state' = [esp_state EXCEPT ![d].break_start = clock]
            /\ esp_state'[d].mode = "WORK"
            /\ esp_state'[d].board_start_time = esp_state[d].board_start_time
            /\ esp_state'[d].last_job_press_time = esp_state[d].last_job_press_time
            /\ StoresUnchanged]_vars

\* A blocked request has just restamped a break start that was older.
C1_Witness ==
    /\ req.op = "set_mode"
    /\ resp.tag = "blocked"
    /\ Known(req.esp_id)
    /\ esp_state[req.esp_id].mode = "WORK"
    /\ esp_state[req.esp_id].break_start = clock
    /\ clock - esp_state[req.esp_id].board_start_time > WindowTicks

\* C2: a WORK -> BREAK request at most 10 seconds (10 included) into a cycle
\* is allowed: mode becomes BREAK, board_start_time is cleared, the request
\* persists no cycle; and every cycle that is persisted at all is measured
\* from the board_start_time the device holds at that moment, so never from
\* a start that a mode change discarded.
C2_EarlyBreakDiscardsCycle ==
    [][/\ \A d \in Devices :
            (SetMode(d, "BREAK") /\ CycleActive(d) /\ ElapsedTicks(d) <= WindowTicks)
            => /\ resp'.tag = "allowed"
               /\ esp_state'[d].mode = "BREAK"
               /\ esp_state'[d].board_start_time = None
               /\ esp_cycle_times' = esp_cycle_times
       /\ \A i \in 1..Len(esp_cycle_times') :
            LET r == esp_cycle_times'[i] IN
            (\A j \in 1..Len(esp_cycle_times) : esp_cycle_times[j] # r)
            => /\ CycleActive(r.esp_id)
               /\ r.timestamp = clock
               /\ r.cycle_time_sec = ElapsedTicks(r.esp_id) \div TicksPerSec]_vars

\* A board was cancelled exactly 10 seconds after it started.
C2_Witness ==
    /\ req.op = "set_mode"
    /\ resp.tag = "allowed"
    /\ resp.reason = "Board cancelled"
    /\ esp_state[req.esp_id].mode = "BREAK"
    /\ esp_state[req.esp_id].board_start_time = None
    /\ clock - esp_state[req.esp_id].last_job_press_time = WindowTicks

PassesHardwareDebounce(d) ==
    \/ esp_state[d].last_job_press_time = None
    \/ clock - esp_state[d].last_job_press_time >= HardwareDebounce * TicksPerSec

NewCycles(d) ==
    {i \in 1..Len(esp_cycle_times') :
        /\ esp_cycle_times'[i].esp_id = d
        /\ \A j \in 1..Len(esp_cycle_times) : esp_cycle_times[j] # esp_cycle_times'[i]}

\* C3: at every time of day, a press that passes the hardware debounce 10
\* seconds or more into a cycle leaves, on return, exactly one new persisted
\* cycle of the device, with duration floor(elapsed), the shift and the
\* timestamp of the press, and restarts the cycle at the press.
C3_CompletionPersistsOneCycle ==
    [][\A d \in Devices :
         (/\ JobDone(d)
          /\ CycleActive(d)
          /\ PassesHardwareDebounce(d)
          /\ ElapsedTicks(d) >= WindowTicks)
         => /\ Cardinality(NewCycles(d)) = 1
            /\ \A i \in NewCycles(d) :
                 /\ esp_cycle_times'[i].cycle_time_sec = ElapsedTicks(d) \div TicksPerSec
                 /\ esp_cycle_times'[i].shift = get_current_shift(clock)
                 /\ esp_cycle_times'[i].timestamp = clock
            /\ esp_state'[d].board_start_time = clock
            /\ esp_state'[d].last_job_press_time = clock]_vars

InResetMinute ==
    /\ clock % TicksPerDay >= Shift1Hour * TicksPerHour
    /\ clock % TicksPerDay < Shift1Hour * TicksPerHour + TicksPerMinute

\* Away from the 06:00 minute the completing press does leave its record.
CompletionPersistsOutsideResetMinute ==
    [][\A d \in Devices :
         (/\ JobDone(d)
          /\ CycleActive(d)
          /\ PassesHardwareDebounce(d)
          /\ ElapsedTicks(d) >= WindowTicks
          /\ ~InResetMinute)
         => /\ Cardinality(NewCycles(d)) = 1
            /\ \A i \in NewCycles(d) :
                 /\ esp_cycle_times'[i].cycle_time_sec = ElapsedTicks(d) \div TicksPerSec
                 /\ esp_cycle_times'[i].shift = get_current_shift(clock)
                 /\ esp_cycle_times'[i].timestamp = clock
            /\ esp_state'[d].board_start_time = clock
            /\ esp_state'[d].last_job_press_time = clock]_vars

\* C4: a BREAK -> WORK request is allowed; with a pending break start it
\* appends exactly one break session (start = the pending start, end = now,
\* duration = floor(end - start), shift = the shift at now, whatever the shift
\* at the start was) and without one it appends nothing; afterwards the mode is
\* WORK and break_start and board_start_time are null.
C4_ReturnToWorkEmitsBreak ==
    [][\A d \in Devices :
         (SetMode(d, "WORK") /\ (Known(d) => esp_state[d].mode = "BREAK"))
         => /\ resp'.tag = "allowed"
            /\ resp'.mode = "WORK"
            /\ esp_state'[d].mode = "WORK"
            /\ esp_state'[d].break_start = None
            /\ esp_state'[d].board_start_time = None
            /\ esp_cycle_times' = esp_cycle_times
            /\ IF Known(d) /\ esp_state[d].break_start # None
               THEN break_sessions' =
                      Append(break_sessions,
                             [esp_id |-> d,
                              shift |-> get_current_shift(clock),
                              start_time |-> esp_state[d].break_start,
                              end_time |-> clock,
                              duration_sec |->
                                (clock - esp_state[d].break_start) \div TicksPerSec])
               ELSE break_sessions' = break_sessions]_vars

\* A break that began in one shift has just been recorded under the next.
C4_Witness ==
    /\ req.op = "set_mode"
    /\ req.mode = "WORK"
    /\ resp.tag = "allowed"
    /\ esp_state[req.esp_id].mode = "WORK"
    /\ esp_state[req.esp_id].break_start = None
    /\ \E i \in 1..Len(break_sessions) :
         /\ break_sessions[i].end_time = clock
         /\ break_sessions[i].esp_id = req.esp_id
         /\ break_sessions[i].shift # get_current_shift(break_sessions[i].start_time)

\* C5: when two job_done calls for one device are less than 1 second apart
\* with nothing served in between, the second is ignored and leaves the
\* device state and both collections as the first left them.
C5_SecondPressWithinSecondIgnored ==
    [][\A d \in Devices :
         (/\ JobDone(d)
          /\ req.op = "job_done"
          /\ req.esp_id = d
          /\ clock - req.at < HardwareDebounce * TicksPerSec)
         => /\ resp'.tag = "ignored"
            /\ esp_state' = esp_state
            /\ StoresUnchanged]_vars

\* After a press that was accepted (it started or completed a cycle), or
\* that found the device out of WORK mode, the second press is ignored.
SecondPressAfterAcceptedIgnored ==
    [][\A d \in Devices :
         (/\ JobDone(d)
          /\ req.op = "job_done"
          /\ req.esp_id = d
          /\ clock - req.at < HardwareDebounce * TicksPerSec
          /\ \/ resp.tag \in {"started", "completed_and_started"}
             \/ resp.reason = "Not in WORK mode")
         => /\ resp'.tag = "ignored"
            /\ esp_state' = esp_state
            /\ StoresUnchanged]_vars

PreviousSetMode(d, m) ==
    /\ req.op = "set_mode"
    /\ req.esp_id = d
    /\ req.mode = m

\* C6: set_mode(d, m) served twice in a row: the second call emits no
\* break session and changes none of mode, board_start_time,
\* last_job_press_time, break_start.
C6_RepeatedSetModeNoOp ==
    [][\A d \in Devices, m \in Modes :
         (SetMode(d, m) /\ PreviousSetMode(d, m))
         => /\ esp_state' = esp_state
            /\ StoresUnchanged]_vars

\* C6 as amended: the second call emits no break session and changes none
\* of mode, board_start_time, last_job_press_time; it is allowed and leaves
\* break_start alone when the first call was allowed, and it is blocked
\* again and restamps break_start with its own time when the first call
\* was blocked.
C6_RepeatedSetModeOnlyRestamps ==
    [][\A d \in Devices, m \in Modes :
         (SetMode(d, m) /\ PreviousSetMode(d, m))
         => /\ StoresUnchanged
            /\ esp_state'[d].mode = esp_state[d].mode
            /\ esp_state'[d].board_start_time = esp_state[d].board_start_time
            /\ esp_state'[d].last_job_press_time = esp_state[d].last_job_press_time
            /\ IF resp.tag = "blocked"
               THEN /\ resp'.tag = "blocked"
                    /\ esp_state' = [esp_state EXCEPT ![d].break_start = clock]
               ELSE /\ resp'.tag = "allowed"
                    /\ esp_state' = esp_state]_vars

\* A request has been blocked, time has passed, and the same request served
\* again now moves the break start.
C6_Witness ==
    /\ req.op = "set_mode"
    /\ req.mode = "BREAK"
    /\ resp.tag = "blocked"
    /\ Known(req.esp_id)
    /\ esp_state[req.esp_id].break_start = req.at
    /\ req.at < clock
    /\ ENABLED (/\ SetMode(req.esp_id, "BREAK")
                /\ resp'.tag = "blocked"
                /\ esp_state'[req.esp_id].break_start # esp_state[req.esp_id].break_start)

\* C7: a press in WORK mode less than 10 seconds into a cycle is ignored,
\* reports an elapsed value below 10, and leaves the device state and both
\* collections unchanged.
C7_TooFastReportsElapsed ==
    [][\A d \in Devices :
         (JobDone(d) /\ CycleActive(d) /\ ElapsedTicks(d) < WindowTicks)
         => /\ resp'.tag = "ignored"
            /\ resp'.elapsed # None
            /\ resp'.elapsed < DEBOUNCE_WINDOW
            /\ esp_state' = esp_state
            /\ StoresUnchanged]_vars

\* C7 as amended: such a press is ignored and changes nothing; it reports
\* the elapsed whole seconds (below 10) when it passes the hardware debounce,
\* and is answered "Hardware debounce" without an elapsed value when it comes
\* less than 1 second after the last accepted press.
C7_TooFastOrBounceIgnored ==
    [][\A d \in Devices :
         (JobDone(d) /\ CycleActive(d) /\ ElapsedTicks(d) < WindowTicks)
         => /\ resp'.tag = "ignored"
            /\ esp_state' = esp_state
            /\ StoresUnchanged
            /\ IF PassesHardwareDebounce(d)
               THEN /\ resp'.reason = "Too fast"
                    /\ resp'.elapsed = ElapsedTicks(d) \div TicksPerSec
                    /\ resp'.elapsed < DEBOUNCE_WINDOW
               ELSE /\ resp'.reason = "Hardware debounce"
                    /\ resp'.elapsed = None]_vars

\* A press 9.5 seconds into the cycle has been answered "Too fast", 9.
C7_Witness ==
    /\ req.op = "job_done"
    /\ req.at = clock
    /\ resp.tag = "ignored"
    /\ resp.reason = "Too fast"
    /\ CycleActive(req.esp_id)
    /\ resp.elapsed * TicksPerSec < ElapsedTicks(req.esp_id)
    /\ ElapsedTicks(req.esp_id) < WindowTicks

\* C8: a job_done call on a known device that is answered "ignored" leaves
\* the device state and both collections unchanged; and a press in BREAK mode
\* is always answered "ignored", so it never starts a cycle.
C8_IgnoredPressChangesNothing ==
    [][\A d \in Devices :
         /\ (JobDone(d) /\ Known(d) /\ resp'.tag = "ignored")
            => (esp_state' = esp_state /\ StoresUnchanged)
         /\ (JobDone(d) /\ Known(d) /\ esp_state[d].mode = "BREAK")
            => /\ resp'.tag = "ignored"
               /\ resp'.reason = "Not in WORK mode"
               /\ esp_state'[d].board_start_time = esp_state[d].board_start_time
               /\ esp_state'[d].mode = "BREAK"]_vars

\* A press in BREAK mode, a second after the last accepted press, has been
\* ignored and no cycle is running.
C8_Witness ==
    /\ req.op = "job_done"
    /\ req.at = clock
    /\ resp.tag = "ignored"
    /\ resp.reason = "Not in WORK mode"
    /\ Known(req.esp_id)
    /\ esp_state[req.esp_id].mode = "BREAK"
    /\ esp_state[req.esp_id].board_start_time = None
    /\ esp_state[req.esp_id].last_job_press_time # None
    /\ clock - esp_state[req.esp_id].last_job_press_time >= HardwareDebounce * TicksPerSec

StatusQuery(id) == JobEvent(id) \/ ModeStatus(id)
RejectedRequest ==
    \/ \E m \in ModeInputs : SetMode(NoId, m)
    \/ \E id \in IdInputs, m \in ModeInputs \ Modes : SetMode(id, m)
    \/ JobDone(NoId)
ValidEvent(d) == (\E m \in Modes : SetMode(d, m)) \/ JobDone(d)

\* C9: a status query answers the unknown-device error exactly for the ids
\* without state, and a device has state only from its first validated
\* set_mode or job_done on: status queries and rejected requests change
\* neither the device map nor the collections, a device enters the map only
\* by a validated event of its own and with the state that event derives
\* from the default, and it leaves the map only when the process restarts.
C9_UnknownUntilFirstEvent ==
    [][/\ \A id \in IdInputs :
            StatusQuery(id)
            => /\ (resp'.tag = "error") = (id \notin DOMAIN esp_state)
               /\ resp'.tag = "error" => resp'.code = 400
               /\ esp_state' = esp_state
               /\ StoresUnchanged
       /\ RejectedRequest
            => /\ resp'.tag = "error"
               /\ resp'.code = 400
               /\ esp_state' = esp_state
               /\ StoresUnchanged
       /\ \A d \in Devices :
            (d \notin DOMAIN esp_state /\ d \in DOMAIN esp_state')
            => /\ ValidEvent(d)
               /\ esp_state'[d].board_start_time = None
               /\ esp_state'[d].last_job_press_time = None
               /\ esp_state'[d].break_start = None
               /\ esp_state'[d].mode = IF SetMode(d, "WORK") THEN "WORK" ELSE "BREAK"
       /\ \A d \in Devices :
            (d \in DOMAIN esp_state /\ d \notin DOMAIN esp_state') => Startup]_vars

\* A status query for a device that has had no event yet has been refused.
C9_Witness ==
    /\ req.op \in {"mode_status", "job_event"}
    /\ req.esp_id \in Devices
    /\ req.esp_id \notin DOMAIN esp_state
    /\ resp.tag = "error"
    /\ resp.code = 400

ShiftWindow ==
    {get_current_shift(clock), get_previous_shift(get_current_shift(clock))}
InWindow(store) == {i \in 1..Len(store) : store[i].shift \in ShiftWindow}
OnlyWindow(store) == \A i \in 1..Len(store) : store[i].shift \in ShiftWindow
\* new is old without its records outside the window, plus extra records
SweptFrom(old, new, extra) ==
    /\ \A i \in InWindow(old) : \E j \in 1..Len(new) : new[j] = old[i]
    /\ Len(new) = Cardinality(InWindow(old)) + extra

\* C10: after the sweep (at startup, and after the insert of a completed
\* cycle) both collections hold no record labelled outside {current shift,
\* previous shift} and still hold every record labelled inside it; after the
\* daily reset of a cycle completed in the 06:00 minute both collections are
\* empty, and at any other time the daily reset deletes nothing.
C10_SweepAndDailyReset ==
    [][/\ Startup
            => /\ OnlyWindow(esp_cycle_times')
               /\ OnlyWindow(break_sessions')
               /\ SweptFrom(esp_cycle_times, esp_cycle_times', 0)
               /\ SweptFrom(break_sessions, break_sessions', 0)
       /\ \A d \in Devices :
            (JobDone(d) /\ resp'.tag = "completed_and_started")
            => IF InResetMinute
               THEN esp_cycle_times' = <<>> /\ break_sessions' = <<>>
               ELSE /\ OnlyWindow(esp_cycle_times')
                    /\ OnlyWindow(break_sessions')
                    /\ SweptFrom(esp_cycle_times, esp_cycle_times', 1)
                    /\ SweptFrom(break_sessions, break_sessions', 0)]_vars

\* A cycle has just been completed outside the 06:00 minute: its record is
\* there, and so is a break session of the previous shift.
C10_Witness ==
    /\ req.op = "job_done"
    /\ req.at = clock
    /\ resp.tag = "completed_and_started"
    /\ ~InResetMinute
    /\ \E i \in 1..Len(esp_cycle_times) : esp_cycle_times[i].timestamp = clock
    /\ \E i \in 1..Len(break_sessions) :
         /\ break_sessions[i].shift = get_previous_shift(get_current_shift(clock))
         /\ break_sessions[i].end_time < clock

\* The shift period an instant falls in, counted in whole 8 hour periods
\* from the 06:00 boundary of day 0.
PeriodOf(t) == (t - Shift1Hour * TicksPerHour) \div ShiftTicks
CreatedInWindow(t) == PeriodOf(t) >= PeriodOf(clock) - 1
SweepStep ==
    \/ Startup
    \/ \E d \in Devices : JobDone(d) /\ resp'.tag = "completed_and_started"

\* C11: after every sweep, each persisted cycle and break session was
\* created (cycle: its timestamp, break session: its end time) during the
\* current shift period or the one just before it; nothing created three or
\* more shift periods earlier survives a sweep.
C11_RollingTwoShiftWindow ==
    [][SweepStep
       => /\ \A i \in 1..Len(esp_cycle_times') :
               CreatedInWindow(esp_cycle_times'[i].timestamp)
          /\ \A i \in 1..Len(break_sessions') :
               CreatedInWindow(break_sessions'[i].end_time)]_vars

TimeOfDay == clock % TicksPerDay
AllShifts == {"SHIFT_1", "SHIFT_2", "SHIFT_3"}
At(h, m, sec) == h * TicksPerHour + m * TicksPerMinute + sec * TicksPerSec

\* C14: the current shift is SHIFT_1 exactly on [06:00,14:00), SHIFT_2
\* exactly on [14:00,22:00) and SHIFT_3 at every other time of the day
\* (05:59 and 22:00 are SHIFT_3, 06:00 and 13:59:59 SHIFT_1, 14:00 SHIFT_2);
\* the previous shift is the cyclic predecessor 1->3, 2->1, 3->2, never the
\* shift itself, and three steps back return to the shift.
C14_ShiftClock ==
    /\ resp.tag = "graph"
       => /\ resp.current_shift =
               IF At(6, 0, 0) <= TimeOfDay /\ TimeOfDay < At(14, 0, 0)
               THEN "SHIFT_1"
               ELSE IF At(14, 0, 0) <= TimeOfDay /\ TimeOfDay < At(22, 0, 0)
               THEN "SHIFT_2"
               ELSE "SHIFT_3"
          /\ resp.previous_shift =
               CASE resp.current_shift = "SHIFT_1" -> "SHIFT_3"
                 [] resp.current_shift = "SHIFT_2" -> "SHIFT_1"
                 [] resp.current_shift = "SHIFT_3" -> "SHIFT_2"
    /\ get_current_shift(At(5, 59, 0)) = "SHIFT_3"
    /\ get_current_shift(At(6, 0, 0)) = "SHIFT_1"
    /\ get_current_shift(At(13, 59, 59)) = "SHIFT_1"
    /\ get_current_shift(At(14, 0, 0)) = "SHIFT_2"
    /\ get_current_shift(At(22, 0, 0)) = "SHIFT_3"
    /\ \A s \in AllShifts :
         /\ get_previous_shift(s) \in AllShifts \ {s}
         /\ get_previous_shift(get_previous_shift(get_previous_shift(s))) = s

\* The graph route has answered at 14:00 sharp with the second shift.
C14_Witness ==
    /\ req.op = "graph_data"
    /\ resp.tag = "graph"
    /\ TimeOfDay = At(14, 0, 0)
    /\ resp.current_shift = "SHIFT_2"
    /\ resp.previous_shift = "SHIFT_1"

Completes(d) == JobDone(d) /\ resp'.tag = "completed_and_started"
CompletedAtLastPress(d) ==
    /\ Known(d)
    /\ \E i \in 1..Len(esp_cycle_times) :
         /\ esp_cycle_times[i].esp_id = d
         /\ esp_cycle_times[i].timestamp = esp_state[d].last_job_press_time

\* C15: when the last accepted press of a device was the completion of a
\* cycle (its record carries that press time) and the next completing press
\* follows with no mode change in between, the second cycle's duration is
\* floor(second completion time - first completion time), in the response
\* and in the record persisted with it; presses ignored in between leave
\* the cycle start where the first completion put it.
C15_NoIdleBetweenBoards ==
    [][\A d \in Devices :
         /\ (Completes(d) /\ CompletedAtLastPress(d))
            => /\ resp'.cycle_time =
                    (clock - esp_state[d].last_job_press_time) \div TicksPerSec
               /\ \A i \in NewCycles(d) :
                    esp_cycle_times'[i].cycle_time_sec =
                       (clock - esp_state[d].last_job_press_time) \div TicksPerSec
         /\ (JobDone(d) /\ resp'.tag = "ignored" /\ Known(d))
            => esp_state'[d].board_start_time = esp_state[d].board_start_time
         /\ Completes(d)
            => /\ esp_state'[d].board_start_time = clock
               /\ esp_state'[d].last_job_press_time = clock]_vars

\* A cycle was completed by the last accepted press, time has passed, and
\* the next press completes the following cycle.
C15_Witness ==
    \E d \in Devices :
      /\ CompletedAtLastPress(d)
      /\ CycleActive(d)
      /\ esp_state[d].board_start_time = esp_state[d].last_job_press_time
      /\ ENABLED Completes(d)

\* A break start left pending in WORK mode: only a blocked request leaves
\* one behind.
StalePending(d) ==
    /\ Known(d)
    /\ esp_state[d].mode = "WORK"
    /\ esp_state[d].break_start # None
    /\ esp_state[d].break_start < clock
EntersBreak(d) ==
    /\ SetMode(d, "BREAK")
    /\ Known(d)
    /\ esp_state[d].mode = "WORK"
    /\ resp'.tag = "allowed"

\* C16: the break start stamped by a blocked request surfaces: when a later
\* request puts the device into BREAK, the start stamped earlier is the one
\* the device carries into the break, and so the start of the break session
\* that is emitted on return to WORK.
C16_StaleBreakStartSurfaces ==
    [][\A d \in Devices :
         (EntersBreak(d) /\ StalePending(d))
         => esp_state'[d].break_start = esp_state[d].break_start]_vars

\* C16 as amended: the stamp of a blocked request never surfaces.  The
\* request that puts the device into BREAK stamps its own time over
\* whatever is pending, nothing moves the break start while the device is
\* in BREAK, and a break session is only ever emitted by the return to WORK
\* with exactly that start.
C16_BreakStartsAtAllowedRequest ==
    [][\A d \in Devices :
         /\ EntersBreak(d)
            => /\ esp_state'[d].mode = "BREAK"
               /\ esp_state'[d].break_start = clock
         /\ (/\ Known(d)
             /\ esp_state[d].mode = "BREAK"
             /\ d \in DOMAIN esp_state'
             /\ esp_state'[d].mode = "BREAK")
            => esp_state'[d].break_start = esp_state[d].break_start
         /\ \A i \in 1..Len(break_sessions') :
              (/\ break_sessions'[i].esp_id = d
               /\ \A j \in 1..Len(break_sessions) :
                    break_sessions[j] # break_sessions'[i])
              => /\ SetMode(d, "WORK")
                 /\ Known(d)
                 /\ esp_state[d].mode = "BREAK"
                 /\ break_sessions'[i].start_time = esp_state[d].break_start
                 /\ break_sessions'[i].end_time = clock]_vars

\* A blocked request has left its stamp, time has passed, a cycle has been
\* completed since, and a break request is now allowed.
C16_Witness ==
    \E d \in Devices :
      /\ StalePending(d)
      /\ CycleActive(d)
      /\ esp_state[d].break_start < esp_state[d].board_start_time
      /\ ENABLED EntersBreak(d)

\* C18: under sequentially served requests a device in BREAK mode has no
\* cycle in progress, and the status route never answers with mode BREAK
\* and an active board.
C18_BreakHasNoCycle ==
    /\ \A d \in DOMAIN esp_state :
         esp_state[d].mode = "BREAK" => esp_state[d].board_start_time = None
    /\ resp.tag = "status" => ~(resp.mode = "BREAK" /\ resp.board_active)

\* The status of a device that went to BREAK out of a running cycle.
C18_Witness ==
    /\ req.op = "mode_status"
    /\ resp.tag = "status"
    /\ resp.mode = "BREAK"
    /\ ~resp.board_active
    /\ Known(req.esp_id)
    /\ esp_state[req.esp_id].last_job_press_time # None

GuardClosed(d) == CycleActive(d) /\ ElapsedTicks(d) > WindowTicks
CycleGone(d) ==
    \/ d \notin DOMAIN esp_state'
    \/ esp_state'[d].mode = "BREAK"
    \/ esp_state'[d].board_start_time = None

\* C19: within one run of the process, once the guard window of the running
\* cycle has closed (a break request has been or would be blocked), the
\* cycle keeps running with the same start, and every break request is
\* blocked, until a press completes it; and a running cycle ends without a
\* successor only through a break request served at most DEBOUNCE_WINDOW
\* seconds after the cycle started.
C19_BlockedUntilCompletion ==
    [][\A d \in Devices :
         /\ (GuardClosed(d) /\ ~Startup /\ ~Completes(d))
            => /\ CycleActive(d)'
               /\ esp_state'[d].board_start_time = esp_state[d].board_start_time
               /\ SetMode(d, "BREAK") => resp'.tag = "blocked"
         /\ (CycleActive(d) /\ ~Startup /\ CycleGone(d))
            => /\ SetMode(d, "BREAK")
               /\ ElapsedTicks(d) <= WindowTicks
               /\ resp'.tag = "allowed"
               /\ esp_state'[d].mode = "BREAK"
               /\ esp_state'[d].board_start_time = None]_vars

\* A break request has been blocked, time has passed, and the next one is
\* blocked as well.
C19_Witness ==
    /\ req.op = "set_mode"
    /\ req.mode = "BREAK"
    /\ resp.tag = "blocked"
    /\ req.at < clock
    /\ GuardClosed(req.esp_id)
    /\ ENABLED (SetMode(req.esp_id, "BREAK") /\ resp'.tag = "blocked")

\* C20: every persisted cycle lasted at least DEBOUNCE_WINDOW whole seconds,
\* and every persisted break session ends no earlier than it starts and has
\* a duration of zero or more.
C20_RecordDurations ==
    /\ \A i \in 1..Len(esp_cycle_times) :
         esp_cycle_times[i].cycle_time_sec >= DEBOUNCE_WINDOW
    /\ \A i \in 1..Len(break_sessions) :
         /\ break_sessions[i].end_time >= break_sessions[i].start_time
         /\ break_sessions[i].duration_sec >= 0

\* A cycle of exactly DEBOUNCE_WINDOW seconds and a break session that took
\* time are both on record.
C20_Witness ==
    /\ \E i \in 1..Len(esp_cycle_times) :
         esp_cycle_times[i].cycle_time_sec = DEBOUNCE_WINDOW
    /\ \E i \in 1..Len(break_sessions) :
         break_sessions[i].end_time > break_sessions[i].start_time

NewBreaks(d) ==
    {i \in 1..Len(break_sessions') :
        /\ break_sessions'[i].esp_id = d
        /\ \A j \in 1..Len(break_sessions) : break_sessions[j] # break_sessions'[i]}

\* C17: a request that ends in an error because a collection call failed
\* has either persisted its record and advanced the device state (cycle
\* start and last press moved to now; break start cleared and mode WORK),
\* or has done neither.
C17_FailureIsAllOrNothing ==
    [][\A d \in Devices :
         /\ (\E call \in PersistenceCalls : JobDoneFails(d, call))
            => /\ resp'.code = 500
               /\ IF NewCycles(d) = {}
                  THEN esp_state' = esp_state
                  ELSE /\ esp_state'[d].board_start_time = clock
                       /\ esp_state'[d].last_job_press_time = clock
         /\ SetModeFails(d)
            => /\ resp'.code = 500
               /\ IF NewBreaks(d) = {}
                  THEN esp_state' = esp_state
                  ELSE /\ esp_state'[d].break_start = None
                       /\ esp_state'[d].mode = "WORK"]_vars

Quiescent == \A t \in Threads : inflight[t].pc = "idle"

\* C12: requests for one device served concurrently leave, once they have
\* all returned, a state that some serial order of them leaves as well; in
\* particular never a device in BREAK mode with a cycle in progress, which
\* no serial order produces.
C12_ConcurrentRequestsSerialize ==
    Quiescent
    => \A d \in DOMAIN esp_state :
         esp_state[d].mode = "BREAK" => esp_state[d].board_start_time = None

\* C13: the state of a device is created once: init_esp puts a default
\* state into esp_state only for an esp_id that has none, so a state that
\* requests already work on is never replaced by a fresh default.
C13_InitCreatesOnce ==
    [][\A t \in Threads :
         InitCreate(t) => inflight[t].esp_id \notin DOMAIN esp_state]_vars

====
